---- MODULE Spec2Model ----
(***************************************************************************)
(* Model of the consuming byte-stream reader of ensicoin-serializer        *)
(* (ensicoin-serializer/src/deserializer.rs).                              *)
(*                                                                         *)
(* The state is the Deserializer's buffer plus a record of the last call   *)
(* (the buffer before it, which operation, its result) and whether a call  *)
(* before the last one failed.  Every decode operation of the reader is an *)
(* operator from a buffer to (buffer afterwards, result); the actions      *)
(* apply them to the state.                                                *)
(*                                                                         *)
(* Numbers.  TLC's integers are 32 bits wide, so u32, u64, usize and u128  *)
(* are sequences of 16-bit limbs, most significant first (2, 4, 4 and 8    *)
(* limbs; usize is taken to be 64 bits wide).  u8 and u16 are integers.    *)
(* Text (String, the Display of an Error) is a TLA+ string; a decoded      *)
(* String value is kept as its UTF-8 bytes.                                *)
(***************************************************************************)
EXTENDS Integers, Sequences, FiniteSets, TLC

VARIABLES buffer, before, op, arg, result, decodes, failed

vars == <<buffer, before, op, arg, result, decodes, failed>>

(***************************************************************************)
(* Bounds of the model.                                                    *)
(***************************************************************************)
\* every buffer over Alphabet of at most MaxLen bytes is an initial buffer
MaxLen == 3
\* length of the long patterned initial buffers
LongLen == 34
\* extract_bytes is called with every length 0..MaxExtract
MaxExtract == 3

(***************************************************************************)
(* Limb arithmetic for the fixed-width unsigned integers.                  *)
(***************************************************************************)
\* limbs are 16 bits wide
LimbBase == 256 * 256

RECURSIVE Word(_, _)
\* the word <<f[1], ..., f[n]>>, each limb computed once
Word(f, n) == IF n = 0 THEN <<>> ELSE Append(Word(f, n - 1), f[n])

Zero(n) == Word([i \in 1..n |-> 0], n)

\* a small non-negative integer as an n-limb word (n >= 2)
FromInt(n, k) ==
    Word([i \in 1..n |-> IF i = n THEN k % LimbBase
                          ELSE IF i = n - 1 THEN (k \div LimbBase) % LimbBase
                          ELSE 0], n)

\* `x as uN` for a narrower word x: zero extension to n limbs
Widen(n, w) == Word([i \in 1..n |-> IF i <= n - Len(w) THEN 0 ELSE w[i - (n - Len(w))]], n)

RECURSIVE BitOr(_, _)
BitOr(a, b) ==
    IF a = 0 THEN b
    ELSE IF b = 0 THEN a
    ELSE (IF a % 2 = 1 \/ b % 2 = 1 THEN 1 ELSE 0) + 2 * BitOr(a \div 2, b \div 2)

\* v | w
OrW(v, w) == Word([i \in 1..Len(v) |-> BitOr(v[i], w[i])], Len(v))

\* v << 8, the bits shifted out at the top are lost
ShlByte(v) ==
    Word([i \in 1..Len(v) |->
            ((v[i] * 256) % LimbBase) + (IF i < Len(v) THEN v[i + 1] \div 256 ELSE 0)],
         Len(v))

RECURSIVE ShlW(_, _)
\* v << bits, for bits a multiple of 8
ShlW(v, bits) == IF bits <= 0 THEN v ELSE ShlW(ShlByte(v), bits - 8)

RECURSIVE Carry(_, _, _)
\* the carry into limb i of v + w
Carry(v, w, i) ==
    IF i >= Len(v) THEN 0
    ELSE (v[i + 1] + w[i + 1] + Carry(v, w, i + 1)) \div LimbBase

\* v + w, wrapping
AddW(v, w) ==
    Word([i \in 1..Len(v) |-> (v[i] + w[i] + Carry(v, w, i)) % LimbBase], Len(v))

RECURSIVE LessW(_, _)
\* v < w for words of the same width
LessW(v, w) ==
    IF v = <<>> THEN FALSE
    ELSE IF Head(v) # Head(w) THEN Head(v) < Head(w)
    ELSE LessW(Tail(v), Tail(w))

\* buffer.len(): a usize
LenW(s) == FromInt(4, Len(s))

\* one step of the long division by 10: cur is the remainder carried in
\* and the next limb, rest the <<quotient, remainder>> of the limbs after it
DivStep(cur, rest) == <<(<<cur \div 10>>) \o rest[1], rest[2]>>

RECURSIVE DivRem10(_, _)
\* <<v div 10, v mod 10>>, rem being the remainder carried in
DivRem10(v, rem) ==
    IF v = <<>> THEN <<(<<>>), rem>>
    ELSE DivStep(rem * LimbBase + Head(v),
                 DivRem10(Tail(v), (rem * LimbBase + Head(v)) % 10))

RECURSIVE Digits(_)
RECURSIVE DigitsOf(_)
DigitsOf(qr) == Digits(qr[1]) \o ToString(qr[2])

Digits(v) == IF v = Zero(Len(v)) THEN "" ELSE DigitsOf(DivRem10(v, 0))

\* the decimal text `{}` prints for an unsigned integer
Decimal(v) == IF v = Zero(Len(v)) THEN "0" ELSE Digits(v)

(***************************************************************************)
(* Results and errors.                                                     *)
(***************************************************************************)
Ok(v) == [tag |-> "Ok", val |-> v]
Err(e) == [tag |-> "Err", err |-> e]
\* a pop_front().unwrap() on an empty buffer
Panicked == [tag |-> "Panic"]

BufferTooShort(t, exp, len) ==
    [kind |-> "BufferTooShort", name |-> t, exp |-> exp, len |-> len]
Message(s) == [kind |-> "Message", msg |-> s]
InvalidString(utf8err) == [kind |-> "InvalidString", utf8err |-> utf8err]

\* what a call returns: the buffer it leaves, its result, and how many
\* element decodes (T::deserialize calls of a deserialize_vec) it made
Ret(buf, res, n) == [buf |-> buf, res |-> res, n |-> n]

\* std's Display of a FromUtf8Error
Utf8ErrorDisplay(e) ==
    IF e.error_len = 0
    THEN "incomplete utf-8 byte sequence from index " \o ToString(e.valid_up_to)
    ELSE "invalid utf-8 sequence of " \o ToString(e.error_len)
         \o " bytes from index " \o ToString(e.valid_up_to)

Display(e) ==
    CASE e.kind = "Message" -> "Error in deserializing : " \o e.msg
      [] e.kind = "BufferTooShort" ->
            "Not enough bytes in buffer reading " \o e.name \o ", expected "
            \o Decimal(e.exp) \o " got " \o Decimal(e.len)
      [] e.kind = "InvalidString" -> "Invalid String: " \o Utf8ErrorDisplay(e.utf8err)

(***************************************************************************)
(* The buffer and the primitive reads.  A read whose code binds an         *)
(* intermediate result is split at the binding: the operator named _then   *)
(* (or after the step) is the rest of the function, applied to that result.*)
(***************************************************************************)
\* mutant of pop_front: takes the byte at the back (pop_back)
pop_front_back(buf) ==
    IF buf = <<>> THEN [some |-> FALSE, buf |-> buf]
    ELSE [some |-> TRUE, val |-> buf[Len(buf)], buf |-> SubSeq(buf, 1, Len(buf) - 1)]

\* VecDeque::pop_front: None on an empty buffer
pop_front(buf) ==
    IF buf = <<>> THEN [some |-> FALSE, buf |-> buf]
    ELSE [some |-> TRUE, val |-> Head(buf), buf |-> Tail(buf)]

RECURSIVE extract_loop(_, _, _)
\* for _ in 0..length { v.push(self.buffer.pop_front().unwrap()) }
extract_loop(buf, left, v) ==
    IF left = 0 THEN Ret(buf, Ok(v), 0)
    ELSE IF ~pop_front(buf).some THEN Ret(buf, Panicked, 0)
    ELSE extract_loop(pop_front(buf).buf, left - 1, Append(v, pop_front(buf).val))

\* mutant of extract_bytes: drains what is there before it reports the shortage
extract_bytes_greedy(buf, length) ==
    IF length > Len(buf)
    THEN Ret(<<>>, Err(BufferTooShort("bytes", FromInt(4, length), LenW(buf))), 0)
    ELSE extract_loop(buf, length, <<>>)

extract_bytes(buf, length) ==
    IF length > Len(buf)
    THEN Ret(buf, Err(BufferTooShort("bytes", FromInt(4, length), LenW(buf))), 0)
    ELSE extract_loop(buf, length, <<>>)

\* pop_front().unwrap(), as a u8 result
unwrap_u8(buf, p) == IF ~p.some THEN Ret(buf, Panicked, 0) ELSE Ret(p.buf, Ok(p.val), 0)

deserialize_u8(buf) ==
    IF Len(buf) < 1
    THEN Ret(buf, Err(BufferTooShort("u8", FromInt(4, 1), LenW(buf))), 0)
    ELSE unwrap_u8(buf, pop_front(buf))

\* ((p1 as u16) << 8) + (p2 as u16), p1 and p2 the two pops in order
u16_value(p1, p2) ==
    IF ~p1.some \/ ~p2.some THEN Ret(p2.buf, Panicked, 0)
    ELSE Ret(p2.buf, Ok((((p1.val * 256) % LimbBase) + p2.val) % LimbBase), 0)

\* mutant of deserialize_u16: the two bytes in little-endian order
deserialize_u16_le(buf) ==
    IF Len(buf) < 2
    THEN Ret(buf, Err(BufferTooShort("u16", FromInt(4, 2), LenW(buf))), 0)
    ELSE u16_value(pop_front(pop_front(buf).buf), pop_front(buf))

\* mutant of deserialize_u16: the length check lets a one-byte buffer through
deserialize_u16_short_check(buf) ==
    IF Len(buf) < 1
    THEN Ret(buf, Err(BufferTooShort("u16", FromInt(4, 2), LenW(buf))), 0)
    ELSE u16_value(pop_front(buf), pop_front(pop_front(buf).buf))

deserialize_u16(buf) ==
    IF Len(buf) < 2
    THEN Ret(buf, Err(BufferTooShort("u16", FromInt(4, 2), LenW(buf))), 0)
    ELSE u16_value(pop_front(buf), pop_front(pop_front(buf).buf))

\* mutant of word_step: the bytes placed from the low end (little-endian)
word_step_le(value, b, i, n) == OrW(value, ShlW(FromInt(Len(value), b), 8 * (i - 1)))

\* value | ((b as uN) << 8 * (n - i))
word_step(value, b, i, n) == OrW(value, ShlW(FromInt(Len(value), b), 8 * (n - i)))

RECURSIVE word_loop(_, _, _, _)
\* for i in i..=n { value |= (self.buffer.pop_front().unwrap() as uN) << 8 * (n - i) }
word_loop(buf, i, n, value) ==
    IF i > n THEN Ret(buf, Ok(value), 0)
    ELSE IF ~pop_front(buf).some THEN Ret(buf, Panicked, 0)
    ELSE word_loop(pop_front(buf).buf, i + 1, n, word_step(value, pop_front(buf).val, i, n))

deserialize_u32(buf) ==
    IF Len(buf) < 4
    THEN Ret(buf, Err(BufferTooShort("u32", FromInt(4, 4), LenW(buf))), 0)
    ELSE word_loop(buf, 1, 4, Zero(2))

\* mutant of deserialize_u64: expected and available counts swapped
deserialize_u64_swapped(buf) ==
    IF Len(buf) < 8
    THEN Ret(buf, Err(BufferTooShort("u64", LenW(buf), FromInt(4, 8))), 0)
    ELSE word_loop(buf, 1, 8, Zero(4))

deserialize_u64(buf) ==
    IF Len(buf) < 8
    THEN Ret(buf, Err(BufferTooShort("u64", FromInt(4, 8), LenW(buf))), 0)
    ELSE word_loop(buf, 1, 8, Zero(4))

\* the error arms shared by the four reads of deserialize_varuint: a
\* BufferTooShort is renamed "VarUint", any other error is passed on
varuint_err(r) ==
    IF r.res.tag = "Err" /\ r.res.err.kind = "BufferTooShort"
    THEN Ret(r.buf, Err(BufferTooShort("VarUint", r.res.err.exp, r.res.err.len)), 0)
    ELSE r

\* the Ok arms: `n as u64` of the inner read r, wrapped in a VarUint
varuint_ok(r, width) ==
    IF r.res.tag # "Ok" THEN varuint_err(r)
    ELSE Ret(r.buf,
             Ok([value |-> IF width <= 2 THEN FromInt(4, r.res.val) ELSE Widen(4, r.res.val)]),
             0)

\* mutant of varuint_match: 0xFD is taken for a value, the prefixes start at 0xFE
varuint_match_shifted(first) ==
    IF first.res.tag # "Ok" THEN varuint_err(first)
    ELSE CASE first.res.val = 254 -> varuint_ok(deserialize_u16(first.buf), 2)
           [] first.res.val = 255 -> varuint_ok(deserialize_u32(first.buf), 4)
           [] OTHER -> varuint_ok(first, 1)

\* match first_byte { 0xFD => u16, 0xFE => u32, 0xFF => u64, _ => first_byte }
varuint_match(first) ==
    IF first.res.tag # "Ok" THEN varuint_err(first)
    ELSE CASE first.res.val = 253 -> varuint_ok(deserialize_u16(first.buf), 2)
           [] first.res.val = 254 -> varuint_ok(deserialize_u32(first.buf), 4)
           [] first.res.val = 255 -> varuint_ok(deserialize_u64(first.buf), 8)
           [] OTHER -> varuint_ok(first, 1)

deserialize_varuint(buf) == varuint_match(deserialize_u8(buf))

(***************************************************************************)
(* String::from_utf8 (std): the validation of the bytes as UTF-8.          *)
(***************************************************************************)
\* UTF8_CHAR_WIDTH: the length of the sequence a first byte announces
utf8_char_width(b) ==
    IF b < 128 THEN 1
    ELSE IF b >= 194 /\ b <= 223 THEN 2
    ELSE IF b >= 224 /\ b <= 239 THEN 3
    ELSE IF b >= 240 /\ b <= 244 THEN 4
    ELSE 0

utf8_is_cont(b) == b >= 128 /\ b <= 191

\* the second byte a three- or four-byte sequence allows after `first`
utf8_second_ok(first, b) ==
    CASE first = 224 -> b >= 160 /\ b <= 191
      [] first >= 225 /\ first <= 236 -> b >= 128 /\ b <= 191
      [] first = 237 -> b >= 128 /\ b <= 159
      [] first >= 238 /\ first <= 239 -> b >= 128 /\ b <= 191
      [] first = 240 -> b >= 144 /\ b <= 191
      [] first >= 241 /\ first <= 243 -> b >= 128 /\ b <= 191
      [] first = 244 -> b >= 128 /\ b <= 143
      [] OTHER -> FALSE

Utf8Error(i, n) == [valid |-> FALSE, valid_up_to |-> i, error_len |-> n]

RECURSIVE utf8_cont_run(_, _, _, _)
\* the bytes after the first k of the sequence of width w that starts at index
\* i: 0 when all are continuation bytes, -1 when the input ends before the
\* sequence does, else the number of bytes accepted before the bad one
utf8_cont_run(b, i, k, w) ==
    IF k >= w THEN 0
    ELSE IF i + k + 1 > Len(b) THEN -1
    ELSE IF ~utf8_is_cont(b[i + k + 1]) THEN k
    ELSE utf8_cont_run(b, i, k + 1, w)

RECURSIVE run_utf8_validation(_, _)

\* the sequence of width w > 1 that starts at index i, c the outcome of
\* utf8_cont_run for the bytes after its second
utf8_sequence(b, i, w, c) ==
    IF c = -1 THEN Utf8Error(i, 0)
    ELSE IF c > 0 THEN Utf8Error(i, c)
    ELSE run_utf8_validation(b, i + w)

\* the character that starts at index i, its first byte `first` of width w
utf8_char(b, i, first, w) ==
    IF w = 1 THEN run_utf8_validation(b, i + 1)
    ELSE IF w = 0 THEN Utf8Error(i, 1)
    ELSE IF i + 2 > Len(b) THEN Utf8Error(i, 0)
    ELSE IF w = 2 /\ ~utf8_is_cont(b[i + 2]) THEN Utf8Error(i, 1)
    ELSE IF w > 2 /\ ~utf8_second_ok(first, b[i + 2]) THEN Utf8Error(i, 1)
    ELSE utf8_sequence(b, i, w, utf8_cont_run(b, i, 2, w))

\* i: the 0-based index of the next byte to look at
run_utf8_validation(b, i) ==
    IF i >= Len(b) THEN [valid |-> TRUE, valid_up_to |-> i, error_len |-> 0]
    ELSE utf8_char(b, i, b[i + 1], utf8_char_width(b[i + 1]))

\* the FromUtf8Error of a failed validation v
from_utf8_result(bytes, v) ==
    IF v.valid THEN Ok(bytes)
    ELSE Err([valid_up_to |-> v.valid_up_to, error_len |-> v.error_len])

\* Ok(the bytes as a String) or the FromUtf8Error
from_utf8(bytes) == from_utf8_result(bytes, run_utf8_validation(bytes, 0))

(***************************************************************************)
(* Strings, sequences and the Deserialize trait.                           *)
(***************************************************************************)
RECURSIVE string_loop(_, _, _, _)
\* for _ in 0..length { bytes.push(self.buffer.pop_front().unwrap()) }
string_loop(buf, i, length, bytes) ==
    IF ~LessW(FromInt(4, i), length) THEN Ret(buf, Ok(bytes), 0)
    ELSE IF ~pop_front(buf).some THEN Ret(buf, Panicked, 0)
    ELSE string_loop(pop_front(buf).buf, i + 1, length, Append(bytes, pop_front(buf).val))

\* match String::from_utf8(bytes), s its result
string_utf8(buf, s) ==
    IF s.tag = "Err" THEN Ret(buf, Err(InvalidString(s.err)), 0) ELSE Ret(buf, s, 0)

\* b: what the loop that collects the bytes returned
string_bytes(b) ==
    IF b.res.tag = "Panic" THEN b ELSE string_utf8(b.buf, from_utf8(b.res.val))

\* mutant of string_body: a payload that exactly fills the buffer is refused
string_body_strict(buf, length) ==
    IF ~LessW(length, LenW(buf))
    THEN Ret(buf, Err(BufferTooShort("String", length, LenW(buf))), 0)
    ELSE string_bytes(string_loop(buf, 0, length, <<>>))

\* the rest of deserialize_string once the length is read
string_body(buf, length) ==
    IF LessW(LenW(buf), length)
    THEN Ret(buf, Err(BufferTooShort("String", length, LenW(buf))), 0)
    ELSE string_bytes(string_loop(buf, 0, length, <<>>))

\* let length = match self.deserialize_varuint() { ... }, n its result
string_length(n) ==
    IF n.res.tag = "Panic" THEN n
    ELSE IF n.res.tag = "Err"
    THEN Ret(n.buf, Err(Message("Error in reading string length: " \o Display(n.res.err))), 0)
    ELSE string_body(n.buf, n.res.val.value)

deserialize_string(buf) == string_length(deserialize_varuint(buf))

\* the types that implement Deserialize
TU8 == [k |-> "u8"]
TU16 == [k |-> "u16"]
TU32 == [k |-> "u32"]
TU64 == [k |-> "u64"]
TVarUint == [k |-> "VarUint"]
TString == [k |-> "String"]
TSha256Result == [k |-> "Sha256Result"]
TSocketAddr == [k |-> "SocketAddr"]
TVec(T) == [k |-> "Vec", of |-> T]

\* typenum::U32, the length of a Sha256Result
HashLen == 32

\* Sha256Result::clone_from_slice(&r?), which panics on a slice of another length
sha256_from(r) ==
    IF r.res.tag # "Ok" THEN r
    ELSE IF Len(r.res.val) # HashLen THEN Ret(r.buf, Panicked, 0)
    ELSE r

\* impl Deserialize for Sha256Result
deserialize_sha256(buf) == sha256_from(extract_bytes(buf, HashLen))

\* mutant of socketaddr_field: the field's error is passed on as it is
socketaddr_field_raw(r, what) == r

\* one field read of SocketAddr::deserialize: its error as a Message
socketaddr_field(r, what) ==
    IF r.res.tag = "Err"
    THEN Ret(r.buf, Err(Message("In reading SocketAddr " \o what \o ": " \o Display(r.res.err))), 0)
    ELSE r

\* SocketAddr::new(IpAddr::from(Ipv6Addr::from(((high as u128) << 64) + (low as u128))), port)
socketaddr_port(high, low, port) ==
    IF port.res.tag # "Ok" THEN port
    ELSE Ret(port.buf,
             Ok([ip |-> AddW(ShlW(Widen(8, high), 64), Widen(8, low)),
                 port |-> port.res.val]),
             0)

socketaddr_low(high, low) ==
    IF low.res.tag # "Ok" THEN low
    ELSE socketaddr_port(high, low.res.val, socketaddr_field(deserialize_u16(low.buf), "port"))

socketaddr_high(high) ==
    IF high.res.tag # "Ok" THEN high
    ELSE socketaddr_low(high.res.val, socketaddr_field(deserialize_u64(high.buf), "ip low"))

\* impl Deserialize for SocketAddr
deserialize_socketaddr(buf) == socketaddr_high(socketaddr_field(deserialize_u64(buf), "ip high"))

RECURSIVE deserialize(_, _)
RECURSIVE vec_loop(_, _, _, _, _)
RECURSIVE vec_item(_, _, _, _, _)

\* mutant of vec_item: a failed element ends the loop with the elements so far
vec_item_partial(x, T, i, length, v) ==
    IF x.res.tag = "Panic" THEN Ret(x.buf, Panicked, i)
    ELSE IF x.res.tag = "Err" THEN Ret(x.buf, Ok(v), i)
    ELSE vec_loop(x.buf, T, i, length, Append(v, x.res.val))

\* v.push(match T::deserialize(self) { ... }), x its result, the i-th decode
vec_item(x, T, i, length, v) ==
    IF x.res.tag = "Panic" THEN Ret(x.buf, Panicked, i)
    ELSE IF x.res.tag = "Err"
    THEN Ret(x.buf, Err(Message("Error in reading vec item: " \o Display(x.res.err))), i)
    ELSE vec_loop(x.buf, T, i, length, Append(v, x.res.val))

\* for _ in 0..length { ... }, i the iterations done
vec_loop(buf, T, i, length, v) ==
    IF ~LessW(FromInt(4, i), length) THEN Ret(buf, Ok(v), i)
    ELSE vec_item(deserialize(T, buf), T, i + 1, length, v)

\* let length = match self.deserialize_varuint() { ... }, n its result
vec_length(n, T) ==
    IF n.res.tag = "Panic" THEN n
    ELSE IF n.res.tag = "Err"
    THEN Ret(n.buf, Err(Message("Error in reading vec length: " \o Display(n.res.err))), 0)
    ELSE vec_loop(n.buf, T, 0, n.res.val.value, <<>>)

deserialize_vec(buf, T) == vec_length(deserialize_varuint(buf), T)

\* T::deserialize(de)
deserialize(T, buf) ==
    CASE T.k = "u8" -> deserialize_u8(buf)
      [] T.k = "u16" -> deserialize_u16(buf)
      [] T.k = "u32" -> deserialize_u32(buf)
      [] T.k = "u64" -> deserialize_u64(buf)
      [] T.k = "VarUint" -> deserialize_varuint(buf)
      [] T.k = "String" -> deserialize_string(buf)
      [] T.k = "Vec" -> deserialize_vec(buf, T.of)
      [] T.k = "Sha256Result" -> deserialize_sha256(buf)
      [] T.k = "SocketAddr" -> deserialize_socketaddr(buf)

(***************************************************************************)
(* The writer's VarUint encoding (serializer.rs), from the table of the    *)
(* specification: the minimal prefix-byte form.                            *)
(***************************************************************************)
LimbBytes(l) == <<l \div 256, l % 256>>

EncodeVarUint(v) ==
    IF v[1] # 0 \/ v[2] # 0
    THEN <<255>> \o LimbBytes(v[1]) \o LimbBytes(v[2]) \o LimbBytes(v[3]) \o LimbBytes(v[4])
    ELSE IF v[3] # 0 THEN <<254>> \o LimbBytes(v[3]) \o LimbBytes(v[4])
    ELSE IF v[4] > 252 THEN <<253>> \o LimbBytes(v[4])
    ELSE <<v[4]>>

(***************************************************************************)
(* The buffers a Deserializer is created from.                             *)
(***************************************************************************)
\* bytes of the exhaustive short buffers: small counts, an ASCII letter,
\* the three VarUint prefixes (none of which is valid UTF-8)
Alphabet == {0, 2, 97, 253, 254, 255}

ShortBuffers == UNION {[1..n -> Alphabet] : n \in 0..MaxLen}

\* the inputs of the crate's unit tests
TestBuffers ==
    { <<2, 2, 42, 43, 1, 44>>, <<3, 97, 98, 99>>, <<253, 42, 43>>,
      <<42, 43, 44, 45, 46, 47, 48, 49>>, <<42, 43, 44, 45>>, <<125>>, <<10, 15>> }

\* multi-byte UTF-8, well and ill formed, behind a length byte
Utf8Buffers ==
    { <<2, 195, 169>>, <<2, 195, 40>>, <<1, 195>>, <<3, 226, 130, 172>>,
      <<2, 226, 130>>, <<3, 226, 130, 40>>, <<3, 237, 160, 128>>,
      <<4, 240, 159, 152, 128>>, <<4, 240, 159, 152, 40>>, <<3, 97, 128, 98>> }

\* start, start + step, start + 2 step, ... modulo 256
Ramp(start, step, len) == Word([i \in 1..len |-> (start + (i - 1) * step) % 256], len)

LongBuffers == {Ramp(s[1], s[2], LongLen) : s \in {<<0, 1>>, <<250, 1>>, <<128, 5>>}}

\* the values whose encodings are decoded again
U64(a, b, c, d) == <<a, b, c, d>>
RoundTripValues ==
    { U64(0, 0, 0, 0), U64(0, 0, 0, 1), U64(0, 0, 0, 252), U64(0, 0, 0, 253),
      U64(0, 0, 0, 254), U64(0, 0, 0, 255), U64(0, 0, 0, 256), U64(0, 0, 0, 10795),
      U64(0, 0, 0, 65535), U64(0, 0, 1, 0), U64(0, 0, 43981, 4660),
      U64(0, 0, 65535, 65535), U64(0, 1, 0, 0), U64(1, 0, 0, 253),
      U64(32768, 0, 0, 0), U64(65535, 65535, 65535, 65535) }

EncodedBuffers == {EncodeVarUint(v) \o t : v \in RoundTripValues, t \in {<<>>, <<97, 2>>}}

InitBuffers ==
    ShortBuffers \cup TestBuffers \cup Utf8Buffers \cup LongBuffers \cup EncodedBuffers

(***************************************************************************)
(* The state machine: Deserializer::new, then any sequence of reads.       *)
(***************************************************************************)
Init ==
    /\ buffer \in InitBuffers
    /\ before = buffer
    /\ op = "new"
    /\ arg = 0
    /\ result = [tag |-> "None"]
    /\ decodes = 0
    /\ failed = FALSE

\* one call on the Deserializer; a panic ends the program
Call(name, a, r) ==
    /\ result.tag # "Panic"
    /\ buffer' = r.buf
    /\ before' = buffer
    /\ op' = name
    /\ arg' = a
    /\ result' = r.res
    /\ decodes' = r.n
    /\ failed' = (failed \/ result.tag = "Err")

ExtractBytes == \E n \in 0..MaxExtract : Call("extract_bytes", n, extract_bytes(buffer, n))
DeserializeU8 == Call("u8", 0, deserialize(TU8, buffer))
DeserializeU16 == Call("u16", 0, deserialize(TU16, buffer))
DeserializeU32 == Call("u32", 0, deserialize(TU32, buffer))
DeserializeU64 == Call("u64", 0, deserialize(TU64, buffer))
DeserializeVarUint == Call("VarUint", 0, deserialize(TVarUint, buffer))
DeserializeString == Call("String", 0, deserialize(TString, buffer))
DeserializeSha256Result == Call("Sha256Result", 0, deserialize(TSha256Result, buffer))
DeserializeSocketAddr == Call("SocketAddr", 0, deserialize(TSocketAddr, buffer))
DeserializeVecU8 == Call("Vec<u8>", 0, deserialize_vec(buffer, TU8))
DeserializeVecU16 == Call("Vec<u16>", 0, deserialize_vec(buffer, TU16))
DeserializeVecVecU8 == Call("Vec<Vec<u8>>", 0, deserialize_vec(buffer, TVec(TU8)))
DeserializeVecString == Call("Vec<String>", 0, deserialize_vec(buffer, TString))

Next ==
    \/ ExtractBytes
    \/ DeserializeU8
    \/ DeserializeU16
    \/ DeserializeU32
    \/ DeserializeU64
    \/ DeserializeVarUint
    \/ DeserializeString
    \/ DeserializeSha256Result
    \/ DeserializeSocketAddr
    \/ DeserializeVecU8
    \/ DeserializeVecU16
    \/ DeserializeVecVecU8
    \/ DeserializeVecString

Spec == Init /\ [][Next]_vars

(***************************************************************************)
(* The wire format as the claims state it, written without the reader's    *)
(* operators: closed forms over the bytes of the buffer.                   *)
(***************************************************************************)
Take(s, n) == SubSeq(s, 1, n)
Drop(s, n) == SubSeq(s, n + 1, Len(s))
IsPrefix(p, s) == Len(p) <= Len(s) /\ Take(s, Len(p)) = p

\* the big-endian value of an even number of bytes, as limbs
BigEndian(bs) ==
    Word([j \in 1..(Len(bs) \div 2) |-> bs[2 * j - 1] * 256 + bs[2 * j]], Len(bs) \div 2)

FixedOps == {"u8", "u16", "u32", "u64"}
FixedWidth(o) == CASE o = "u8" -> 1 [] o = "u16" -> 2 [] o = "u32" -> 4 [] o = "u64" -> 8

\* sum of b_i * 256^(w - i) over the w bytes bs
FixedValue(o, bs) ==
    CASE o = "u8" -> bs[1]
      [] o = "u16" -> bs[1] * 256 + bs[2]
      [] OTHER -> BigEndian(bs)

\* the bytes a VarUint with first byte b takes
PrefixWidth(b) == CASE b = 253 -> 3 [] b = 254 -> 5 [] b = 255 -> 9 [] OTHER -> 1

\* bs starts with a whole VarUint
HasVarUint(bs) == bs # <<>> /\ Len(bs) >= PrefixWidth(bs[1])

\* its value
VarUintValue(bs) ==
    CASE bs[1] = 253 -> <<0, 0, 0, bs[2] * 256 + bs[3]>>
      [] bs[1] = 254 -> <<0, 0>> \o BigEndian(SubSeq(bs, 2, 5))
      [] bs[1] = 255 -> BigEndian(SubSeq(bs, 2, 9))
      [] OTHER -> <<0, 0, 0, bs[1]>>

\* a count that is known to be at most a buffer length, as an integer
Small(v) == v[3] * LimbBase + v[4]

\* a usize count as the errors carry it
Count(k) == <<0, 0, 0, k>>

\* the type a call decodes
OpType(o) ==
    CASE o = "u8" -> TU8 [] o = "u16" -> TU16 [] o = "u32" -> TU32 [] o = "u64" -> TU64
      [] o = "VarUint" -> TVarUint [] o = "String" -> TString
      [] o = "Sha256Result" -> TSha256Result [] o = "SocketAddr" -> TSocketAddr
      [] o = "Vec<u8>" -> TVec(TU8) [] o = "Vec<u16>" -> TVec(TU16)
      [] o = "Vec<Vec<u8>>" -> TVec(TVec(TU8)) [] o = "Vec<String>" -> TVec(TString)

VecOps == {"Vec<u8>", "Vec<u16>", "Vec<Vec<u8>>", "Vec<String>"}

(***************************************************************************)
(* C1                                                                      *)
(***************************************************************************)
\* C1: deserialize_varuint on a buffer that holds the whole encoding: a first
\* byte 0xFD, 0xFE or 0xFF is followed by 2, 4 or 8 bytes that are read as a
\* big-endian integer and widened to 64 bits (1 + 2, 4, 8 bytes consumed);
\* any other first byte b is the value itself and the only byte consumed;
\* {0xFD, 42, 43} decodes to 10795.
C1_VarUintDecode ==
    /\ (op = "VarUint" /\ HasVarUint(before)) =>
          /\ result.tag = "Ok"
          /\ result.val = [value |-> VarUintValue(before)]
          /\ buffer = Drop(before, PrefixWidth(before[1]))
    /\ (op = "VarUint" /\ before = <<253, 42, 43>>) =>
          (result.tag = "Ok" /\ Decimal(result.val.value) = "10795")

\* a three-byte VarUint has been decoded
C1_Witness ==
    /\ op = "VarUint"
    /\ before = <<253, 42, 43>>
    /\ result = Ok([value |-> <<0, 0, 0, 10795>>])
    /\ buffer = <<>>

(***************************************************************************)
(* C2                                                                      *)
(***************************************************************************)
\* the boundary values with the byte lengths of their encodings
Boundaries ==
    { <<U64(0, 0, 0, 0), 1>>, <<U64(0, 0, 0, 252), 1>>, <<U64(0, 0, 0, 253), 3>>,
      <<U64(0, 0, 0, 65535), 3>>, <<U64(0, 0, 1, 0), 5>>, <<U64(0, 0, 65535, 65535), 5>>,
      <<U64(0, 1, 0, 0), 9>> }

\* C2: round trip of VarUint: deserialize_varuint on the minimal encoding of a
\* value v (alone in the buffer, or followed by other bytes) succeeds, returns
\* v and consumes exactly the encoding; the boundary values 0, 252, 253, 65535,
\* 65536, 4294967295, 4294967296 have encodings of 1, 1, 3, 3, 5, 5, 9 bytes.
C2_VarUintRoundTrip ==
    /\ \A v \in RoundTripValues :
          (op = "VarUint" /\ IsPrefix(EncodeVarUint(v), before)) =>
             /\ result = Ok([value |-> v])
             /\ before = EncodeVarUint(v) \o buffer
    /\ \A b \in Boundaries :
          (op = "VarUint" /\ before = EncodeVarUint(b[1])) =>
             (Len(before) = b[2] /\ result = Ok([value |-> b[1]]) /\ buffer = <<>>)

\* the nine-byte encoding of 4294967296 has been decoded
C2_Witness ==
    /\ op = "VarUint"
    /\ before = EncodeVarUint(U64(0, 1, 0, 0))
    /\ Len(before) = 9
    /\ result.tag = "Ok"
    /\ Decimal(result.val.value) = "4294967296"

(***************************************************************************)
(* C3                                                                      *)
(***************************************************************************)
\* the bytes the encoding at the front of the buffer requires
Required(o, bs) ==
    IF o \in FixedOps THEN FixedWidth(o)
    ELSE IF bs = <<>> THEN 1
    ELSE PrefixWidth(bs[1])

\* C3 as claimed: a u8, u16, u32, u64 or VarUint decode from a buffer shorter
\* than the encoding requires fails with BufferTooShort(required bytes, bytes
\* the buffer held) and has consumed nothing.
C3_Original ==
    (op \in FixedOps \cup {"VarUint"} /\ Len(before) < Required(op, before)) =>
       /\ result.tag = "Err"
       /\ result.err.kind = "BufferTooShort"
       /\ result.err.exp = Count(Required(op, before))
       /\ result.err.len = Count(Len(before))
       /\ buffer = before

\* C3 amended: for u8, u16, u32 and u64 as claimed.  A VarUint decode from a
\* buffer shorter than its encoding fails with BufferTooShort("VarUint", ..)
\* and yields no value; on an empty buffer it reports (1, 0) and consumes
\* nothing; when the prefix byte is there and the integer behind it is not, it
\* reports the integer's width (2, 4 or 8) and the bytes left behind the
\* prefix, and the prefix byte (alone) has been consumed.
C3_ShortBuffer ==
    /\ (op \in FixedOps /\ Len(before) < FixedWidth(op)) =>
          /\ result = Err(BufferTooShort(op, Count(FixedWidth(op)), Count(Len(before))))
          /\ buffer = before
    /\ (op = "VarUint" /\ before = <<>>) =>
          /\ result = Err(BufferTooShort("VarUint", Count(1), Count(0)))
          /\ buffer = before
    /\ (op = "VarUint" /\ before # <<>> /\ Len(before) < PrefixWidth(before[1])) =>
          /\ result = Err(BufferTooShort("VarUint", Count(PrefixWidth(before[1]) - 1),
                                         Count(Len(before) - 1)))
          /\ buffer = Tail(before)

\* a VarUint whose prefix announces four bytes where two are left
C3_Witness ==
    /\ op = "VarUint"
    /\ Len(before) = 3
    /\ before[1] = 254
    /\ result = Err(BufferTooShort("VarUint", Count(4), Count(2)))
    /\ buffer = Tail(before)

(***************************************************************************)
(* C4                                                                      *)
(***************************************************************************)
\* the innermost read of a SocketAddr decode that fails on a buffer of n < 18
\* bytes: the field, the type read, its width, the bytes left for it
AddrLen == 8 + 8 + 2
FailingField(n) ==
    IF n < 8 THEN [what |-> "ip high", type |-> "u64", exp |-> 8, len |-> n]
    ELSE IF n < 16 THEN [what |-> "ip low", type |-> "u64", exp |-> 8, len |-> n - 8]
    ELSE [what |-> "port", type |-> "u16", exp |-> 2, len |-> n - 16]

\* a VarUint decode that fails reports a short buffer under the name "VarUint"
\* with the counts of the innermost failing read
VarUintShort ==
    (op = "VarUint" /\ result.tag = "Err") =>
       /\ result.err.kind = "BufferTooShort"
       /\ result.err.name = "VarUint"
       /\ result.err.exp = Count(IF before = <<>> THEN 1 ELSE PrefixWidth(before[1]) - 1)
       /\ result.err.len = Count(IF before = <<>> THEN 0 ELSE Len(before) - 1)

\* C4 as claimed: a short buffer met while decoding a component of a VarUint
\* or of a SocketAddr comes back as a BufferTooShort named after the outer type
\* with the counts of the innermost failing read.
C4_Original ==
    /\ VarUintShort
    /\ (op = "SocketAddr" /\ result.tag = "Err") =>
          /\ result.err.kind = "BufferTooShort"
          /\ result.err.name = "SocketAddr"
          /\ result.err.exp = Count(FailingField(Len(before)).exp)
          /\ result.err.len = Count(FailingField(Len(before)).len)

\* C4 amended: for a VarUint as claimed.  A short buffer met while decoding the
\* high word, low word or port of a SocketAddr comes back as an Error::Message
\* whose text names the field ("In reading SocketAddr ip high: ", "... ip low:
\* ", "... port: ") followed by the text of the inner BufferTooShort, which
\* keeps the inner type's name ("u64", "u16") and the counts of the innermost
\* failing read.
C4_CompositeErrors ==
    /\ VarUintShort
    /\ (op = "SocketAddr" /\ result.tag = "Err") =>
          /\ Len(before) < AddrLen
          /\ result.err.kind = "Message"
          /\ result.err.msg =
                "In reading SocketAddr " \o FailingField(Len(before)).what
                \o ": Not enough bytes in buffer reading " \o FailingField(Len(before)).type
                \o ", expected " \o ToString(FailingField(Len(before)).exp)
                \o " got " \o ToString(FailingField(Len(before)).len)

\* a SocketAddr decode has failed at the port, one byte short
C4_Witness ==
    /\ op = "SocketAddr"
    /\ Len(before) = 17
    /\ result.tag = "Err"
    /\ result.err.kind = "Message"

(***************************************************************************)
(* C5                                                                      *)
(***************************************************************************)
\* C5: on a buffer of at least w bytes (w = 1, 2, 4, 8 for u8, u16, u32, u64)
\* the fixed-width decode removes the first w bytes and returns their
\* big-endian value; on fewer it fails with BufferTooShort(type, w, length).
\* {125} -> 125, {10, 15} -> 2575, {42, 43, 44, 45} -> 707472429.
C5_FixedWidth ==
    /\ (op \in FixedOps /\ Len(before) >= FixedWidth(op)) =>
          /\ result = Ok(FixedValue(op, Take(before, FixedWidth(op))))
          /\ buffer = Drop(before, FixedWidth(op))
    /\ (op \in FixedOps /\ Len(before) < FixedWidth(op)) =>
          result = Err(BufferTooShort(op, Count(FixedWidth(op)), Count(Len(before))))
    /\ (op = "u8" /\ before = <<125>>) => result = Ok(125)
    /\ (op = "u16" /\ before = <<10, 15>>) => result = Ok(2575)
    /\ (op = "u32" /\ before = <<42, 43, 44, 45>>) =>
          (result.tag = "Ok" /\ Decimal(result.val) = "707472429")
    /\ (op = "u64" /\ before = <<42, 43, 44, 45, 46, 47, 48, 49>>) =>
          (result.tag = "Ok" /\ Decimal(result.val) = "3038570946151526449")

\* a u64 with its top bit set has been decoded from a longer buffer
C5_Witness ==
    /\ op = "u64"
    /\ Len(before) > 8
    /\ before[1] >= 128
    /\ result = Ok(BigEndian(Take(before, 8)))
    /\ buffer = Drop(before, 8)

(***************************************************************************)
(* C6                                                                      *)
(***************************************************************************)
RECURSIVE ElementDecodes(_, _, _, _)
\* what successive decodes of T return, from the i-th on, up to the n-th or
\* the first that fails
ElementDecodes(T, buf, i, n) ==
    IF ~LessW(Count(i), n) THEN <<>>
    ELSE LET r == deserialize(T, buf)
         IN  IF r.res.tag = "Ok" THEN <<r>> \o ElementDecodes(T, r.buf, i + 1, n)
             ELSE <<r>>

\* C6: deserialize_vec<T> reads a VarUint count n, then decodes T n times on
\* the same buffer and returns the n values in decode order; the first element
\* decode that fails is the last one made, no list is returned, and the result
\* is Error::Message("Error in reading vec item: " + the inner error's text).
\* {2, 2, 42, 43, 1, 44} decodes as Vec<Vec<u8>> to [[42, 43], [44]].
C6_VecDecode ==
    /\ (op \in VecOps /\ HasVarUint(before)) =>
          LET n == VarUintValue(before)
              rest == Drop(before, PrefixWidth(before[1]))
              ds == ElementDecodes(OpType(op).of, rest, 0, n)
          IN  /\ decodes = Len(ds)
              /\ IF \A i \in 1..Len(ds) : ds[i].res.tag = "Ok"
                 THEN /\ Count(decodes) = n
                      /\ result.tag = "Ok"
                      /\ Len(result.val) = decodes
                      /\ \A i \in 1..Len(ds) : result.val[i] = ds[i].res.val
                      /\ buffer = IF ds = <<>> THEN rest ELSE ds[Len(ds)].buf
                 ELSE /\ result.tag = "Err"
                      /\ result.err =
                            Message("Error in reading vec item: "
                                    \o Display(ds[Len(ds)].res.err))
    /\ (op = "Vec<u8>" /\ result.tag = "Ok") =>
          result.val = SubSeq(before, PrefixWidth(before[1]) + 1,
                              PrefixWidth(before[1]) + decodes)
    /\ (op = "Vec<Vec<u8>>" /\ before = <<2, 2, 42, 43, 1, 44>>) =>
          (result = Ok(<< <<42, 43>>, <<44>> >>) /\ decodes = 2 /\ buffer = <<>>)

\* the nested sequence of the crate's test has been decoded
C6_Witness ==
    /\ op = "Vec<Vec<u8>>"
    /\ before = <<2, 2, 42, 43, 1, 44>>
    /\ result = Ok(<< <<42, 43>>, <<44>> >>)
    /\ decodes = 2

(***************************************************************************)
(* C7                                                                      *)
(***************************************************************************)
\* a well-formed UTF-8 byte sequence of one code point (Unicode, table 3-7)
WellFormedChar(s) ==
    CASE Len(s) = 1 -> s[1] <= 127
      [] Len(s) = 2 -> s[1] \in 194..223 /\ s[2] \in 128..191
      [] Len(s) = 3 ->
            /\ \/ s[1] = 224 /\ s[2] \in 160..191
               \/ s[1] \in (225..236) \cup (238..239) /\ s[2] \in 128..191
               \/ s[1] = 237 /\ s[2] \in 128..159
            /\ s[3] \in 128..191
      [] Len(s) = 4 ->
            /\ \/ s[1] = 240 /\ s[2] \in 144..191
               \/ s[1] \in 241..243 /\ s[2] \in 128..191
               \/ s[1] = 244 /\ s[2] \in 128..143
            /\ s[3] \in 128..191
            /\ s[4] \in 128..191

RECURSIVE WellFormedUtf8(_)
WellFormedUtf8(bs) ==
    \/ bs = <<>>
    \/ \E k \in 1..4 :
          /\ k <= Len(bs)
          /\ WellFormedChar(Take(bs, k))
          /\ WellFormedUtf8(Drop(bs, k))

\* C7: deserialize_string, once a VarUint length L is read: with fewer than L
\* bytes left it fails with BufferTooShort("String", L, bytes left) and
\* consumes no payload byte; otherwise it consumes exactly L bytes and fails
\* with InvalidString when they are not valid UTF-8, else returns them as the
\* string.  {3, 97, 98, 99} -> "abc".
C7_StringErrors ==
    /\ (op = "String" /\ HasVarUint(before)) =>
          LET L == VarUintValue(before)
              rest == Drop(before, PrefixWidth(before[1]))
          IN  IF LessW(Count(Len(rest)), L)
              THEN /\ result = Err(BufferTooShort("String", L, Count(Len(rest))))
                   /\ buffer = rest
              ELSE /\ buffer = Drop(rest, Small(L))
                   /\ IF WellFormedUtf8(Take(rest, Small(L)))
                      THEN result = Ok(Take(rest, Small(L)))
                      ELSE result.tag = "Err" /\ result.err.kind = "InvalidString"
    /\ (op = "String" /\ before = <<3, 97, 98, 99>>) => result = Ok(<<97, 98, 99>>)

\* a payload of the declared length that is not UTF-8 has been refused
C7_Witness ==
    /\ op = "String"
    /\ before = <<2, 195, 40>>
    /\ result.tag = "Err"
    /\ result.err.kind = "InvalidString"
    /\ buffer = <<>>

(***************************************************************************)
(* C8                                                                      *)
(***************************************************************************)
RECURSIVE WireSize(_, _)
RECURSIVE ElementsSize(_, _, _)
\* the length of the encoding of one T at the front of bs
WireSize(T, bs) ==
    CASE T.k = "u8" -> 1
      [] T.k = "u16" -> 2
      [] T.k = "u32" -> 4
      [] T.k = "u64" -> 8
      [] T.k = "VarUint" -> PrefixWidth(bs[1])
      [] T.k = "Sha256Result" -> HashLen
      [] T.k = "SocketAddr" -> AddrLen
      [] T.k = "String" -> PrefixWidth(bs[1]) + Small(VarUintValue(bs))
      [] T.k = "Vec" ->
            PrefixWidth(bs[1])
            + ElementsSize(T.of, Drop(bs, PrefixWidth(bs[1])), Small(VarUintValue(bs)))

\* the length of the encodings of k values of T in a row
ElementsSize(T, bs, k) ==
    IF k = 0 THEN 0
    ELSE WireSize(T, bs) + ElementsSize(T, Drop(bs, WireSize(T, bs)), k - 1)

Consumed == IF op = "extract_bytes" THEN arg ELSE WireSize(OpType(op), before)

\* C8: a successful read consumes exactly the bytes of the value's encoding
\* from the front (1/2/4/8 for the integers, 1/3/5/9 for a VarUint, 32 for a
\* hash, 18 for an address, prefix plus payload for strings and sequences) and
\* leaves the rest of the buffer as it was, in order; no read makes the buffer
\* grow.
C8_ConsumesEncoding ==
    /\ result.tag = "Ok" =>
          /\ Consumed <= Len(before)
          /\ buffer = Drop(before, Consumed)
    /\ Len(buffer) <= Len(before)
    /\ buffer = Drop(before, Len(before) - Len(buffer))

\* an address has been decoded from the front of a longer buffer
C8_Witness ==
    /\ op = "SocketAddr"
    /\ result.tag = "Ok"
    /\ Len(before) > AddrLen
    /\ buffer = Drop(before, AddrLen)
    /\ buffer # <<>>

(***************************************************************************)
(* C9                                                                      *)
(***************************************************************************)
\* C9: no read panics, whatever the buffer holds and whatever calls came
\* before, failed ones included: every pop_front().unwrap() finds a byte.
C9_NoPanic == result.tag \in {"None", "Ok", "Err"}

\* a read on the emptied buffer of a reader that had already failed a call
C9_Witness ==
    /\ failed
    /\ before = <<>>
    /\ op = "Vec<u16>"
    /\ result.tag = "Err"

(***************************************************************************)
(* C10                                                                     *)
(***************************************************************************)
PrimitiveOps == FixedOps \cup {"extract_bytes", "Sha256Result"}

\* C10: when extract_bytes(n), a fixed-width read or the hash decode fails, it
\* fails with BufferTooShort and the buffer is what it was before the call;
\* extract_bytes(n) reports BufferTooShort("bytes", n, length) when n exceeds
\* the length of the buffer and otherwise returns the first n bytes.
C10_FailedReadUntouched ==
    /\ (op \in PrimitiveOps /\ result.tag = "Err") =>
          /\ result.err.kind = "BufferTooShort"
          /\ buffer = before
    /\ (op = "extract_bytes" /\ arg > Len(before)) =>
          /\ result = Err(BufferTooShort("bytes", Count(arg), Count(Len(before))))
          /\ buffer = before
    /\ (op = "extract_bytes" /\ arg <= Len(before)) =>
          /\ result = Ok(Take(before, arg))
          /\ buffer = Drop(before, arg)
    /\ (op = "Sha256Result" /\ Len(before) < HashLen) =>
          /\ result = Err(BufferTooShort("bytes", Count(HashLen), Count(Len(before))))
          /\ buffer = before

\* the hash decode has failed one byte short and left all 31 bytes
C10_Witness ==
    /\ op = "Sha256Result"
    /\ Len(before) = 31
    /\ result.tag = "Err"
    /\ buffer = before

====
